---- MODULE Spec2Model ----
(***************************************************************************)
(* Model of the jupyterlab-rise lab plugin (packages/lab/src/index.ts and  *)
(* packages/lab/src/ThemePicker.tsx): the 'rise' notebook metadata written *)
(* by the theme picker and by RISE:set-theme, the slide type command, the  *)
(* full screen command and the auto launch handler.                        *)
(***************************************************************************)
EXTENDS Integers, Sequences, FiniteSets, TLC

\* ---------------------------------------------------------------- bounds
\* notebook panels open in the notebook tracker
NumNotebooks == 2
\* <iframe> elements of the page
NumIframes == 2
\* context.save() calls in flight at a time, over all notebooks
MaxPendingSaves == 1
\* cells of a notebook
NumCells == 1
\* main area widgets the full screen command may target
NumPreviews == 2
\* executions of RISE:fullscreen-plugin on one widget
MaxExecutions == 2

Notebooks == 1..NumNotebooks
Iframes == 1..NumIframes
Cells == 1..NumCells
Previews == 1..NumPreviews
\* content.activeCell === null
NoCell == 0
\* app.shell.currentWidget is a main area widget that is no notebook panel
OtherWidget == NumNotebooks + 1
\* notebookTracker.currentWidget === null
NoWidget == 0

\* ------------------------------------------------------- JSON metadata
\* A metadata value is either absent (getMetadata returns undefined) or a
\* JSON object, modelled as a function from its keys to its values.  JSON
\* values are written as strings ("true" is the JSON literal true).
EmptyObj == [k \in {} |-> ""]
Absent == [present |-> FALSE, obj |-> EmptyObj]
Obj(o) == [present |-> TRUE, obj |-> o]

\* theme ids offered by the picker (the first of the twelve entries)
Themes == {"black"}
\* args['theme'] of RISE:set-theme: any string, the empty one included
ThemeArgs == Themes \cup {"white", ""}

\* values the 'rise' metadata of a freshly opened notebook may have
InitRise ==
  { Absent,
    Obj([k \in {"autolaunch", "scroll"} |-> IF k = "scroll" THEN "false" ELSE "true"]) }

\* (model.getMetadata('rise') as any) || {}
OrEmpty(m) == IF m.present THEN m.obj ELSE EmptyObj

\* a merge that forgets the keys of riseMetadata: { theme: themeName }
SpreadThemeOnly(o, themeName) == [k \in {"theme"} |-> themeName]

\* { ...riseMetadata, theme: themeName }
SpreadTheme(o, themeName) ==
  [k \in DOMAIN o \cup {"theme"} |-> IF k = "theme" THEN themeName ELSE o[k]]

\* riseMetadata['theme'] = themeName
AssignTheme(o, themeName) ==
  [k \in DOMAIN o \cup {"theme"} |-> IF k = "theme" THEN themeName ELSE o[k]]

\* the theme a Reveal preview renders for a notebook file
ThemeOf(m) ==
  IF m.present /\ "theme" \in DOMAIN m.obj THEN m.obj["theme"] ELSE "none"

\* the <iframe> elements of the page: the odd ones are Reveal previews
\* (their src includes 'reveal'), spread over the notebooks; the even ones
\* are other iframes
IframeIsReveal(i) == i % 2 = 1
IframeNotebook(i) == (((i - 1) \div 2) % NumNotebooks) + 1

VARIABLES
  currentWidget,   \* notebookTracker.currentWidget (NoWidget when null)
  hasModel,        \* per notebook panel: panel.model is not null
  riseMeta,        \* per notebook: model.getMetadata('rise')
  saveQueue,       \* per notebook: snapshots of context.save() calls in flight
  disk,            \* per notebook: 'rise' metadata of the saved file
  iframes,         \* per iframe: reload in flight, theme selected, theme shown
  bodyRiseEnabled, \* document.body has class rise-enabled
  shellCurrent,    \* app.shell.currentWidget
  activeCell,      \* per notebook panel: content.activeCell
  slideshow,       \* per cell: cellModel.getMetadata('slideshow')
  ranSlide,        \* the last RISE:set-slide-type execution
  tracked,         \* per main area widget: tracker.has(widget)
  hasIframe,       \* per main area widget: widget.iframe is set
  ready,           \* per main area widget: widget.ready has resolved
  shellWidget,     \* app.shell.currentWidget, among the main area widgets
  fullscreen,      \* the widget whose div.reveal is the fullscreen element
  thenQueue,       \* per widget: ready.then callbacks not yet run
  requests,        \* per widget: requestFullscreen() calls not yet granted
  exiting,         \* a document.exitFullscreen() is in flight
  focused,         \* the widget whose iframe has the focus
  executions,      \* per widget: RISE:fullscreen-plugin executions on it
  appName,         \* app.name
  hasRegistry,     \* settingRegistry is not null
  settingAuto,     \* the plugin setting 'autolaunch' held by the registry
  settings,        \* the variable settings is not null (the load resolved)
  contextReady,    \* per notebook panel: panel.context.ready has resolved
  pc,              \* per notebook panel: position of its widgetAdded handler
  toolbar,         \* per notebook panel: names of the RISE toolbar items
  launched         \* per notebook panel: RISE:preview run with fullscreen: true

themeVars == <<currentWidget, hasModel, riseMeta, saveQueue, disk, iframes,
               bodyRiseEnabled>>

slideVars == <<shellCurrent, activeCell, slideshow, ranSlide>>

fsVars == <<tracked, hasIframe, ready, shellWidget, fullscreen, thenQueue,
           requests, exiting, focused, executions>>

autoVars == <<appName, hasRegistry, settingAuto, settings, contextReady, pc,
             toolbar, launched>>

vars == <<themeVars, slideVars, fsVars, autoVars>>

InitTheme ==
  /\ currentWidget \in Notebooks \cup {NoWidget}
  /\ hasModel \in [Notebooks -> BOOLEAN]
  /\ riseMeta \in [Notebooks -> InitRise]
  /\ saveQueue = [n \in Notebooks |-> <<>>]
  /\ disk = riseMeta
  /\ iframes = [i \in Iframes |->
                  [pending |-> FALSE, selected |-> "",
                   shown |-> IF IframeIsReveal(i)
                               THEN ThemeOf(disk[IframeNotebook(i)])
                               ELSE "none"]]
  /\ bodyRiseEnabled = FALSE

\* the slide type state when no notebook has been touched
IdleSlide ==
  /\ shellCurrent = NoWidget
  /\ activeCell = [n \in Notebooks |-> NoCell]
  /\ slideshow = [n \in Notebooks |-> [c \in Cells |-> Absent]]
  /\ ranSlide = [type |-> "undefined", nb |-> NoWidget, cell |-> NoCell,
                 before |-> "undefined"]

\* the full screen state when no preview is open
IdleFullScreen ==
  /\ tracked = [w \in Previews |-> FALSE]
  /\ hasIframe = [w \in Previews |-> FALSE]
  /\ ready = [w \in Previews |-> FALSE]
  /\ shellWidget = NoWidget
  /\ fullscreen = NoWidget
  /\ thenQueue = [w \in Previews |-> 0]
  /\ requests = [w \in Previews |-> 0]
  /\ exiting = FALSE
  /\ focused = NoWidget
  /\ executions = [w \in Previews |-> 0]

\* the auto launch state when every notebook panel has been set up
IdleAuto ==
  /\ appName = "JupyterLab"
  /\ hasRegistry = FALSE
  /\ settingAuto = FALSE
  /\ settings = FALSE
  /\ contextReady = [n \in Notebooks |-> TRUE]
  /\ pc = [n \in Notebooks |-> "done"]
  /\ toolbar = [n \in Notebooks |-> {"RISE-button", "RISE-theme-button"}]
  /\ launched = [n \in Notebooks |-> FALSE]

Init == InitTheme /\ IdleSlide /\ IdleFullScreen /\ IdleAuto

\* ThemePickerDialog._refreshRisePreview: every iframe whose src includes
\* 'reveal' gets its src assigned again, which starts a reload
RefreshRisePreview(fr, n, themeName) ==
  [i \in Iframes |->
     IF IframeIsReveal(i)
       THEN [fr[i] EXCEPT !.pending = TRUE,
                          !.selected = IF IframeNotebook(i) = n
                                         THEN themeName ELSE fr[i].selected]
       ELSE fr[i]]

\* the number of context.save() calls in flight, over all notebooks
RECURSIVE SumLen(_, _)
SumLen(q, n) == IF n = 0 THEN 0 ELSE Len(q[n]) + SumLen(q, n - 1)
PendingSaves == SumLen(saveQueue, NumNotebooks)

\* void current.context.save(): the host serialises the model and writes
\* the file later
ContextSave(q, n, snapshot) == [q EXCEPT ![n] = Append(q[n], snapshot)]

\* updateMetadata without the call of current.context.save()
UpdateMetadataNoSave(themeName) ==
  LET current == currentWidget IN
  IF current # NoWidget /\ hasModel[current]
       THEN LET newMetadata ==
                  Obj(SpreadTheme(OrEmpty(riseMeta[current]), themeName)) IN
            /\ riseMeta' = [riseMeta EXCEPT ![current] = newMetadata]
            /\ iframes' = RefreshRisePreview(iframes, current, themeName)
            /\ UNCHANGED <<currentWidget, hasModel, saveQueue, disk,
                           bodyRiseEnabled>>
       ELSE UNCHANGED themeVars

\* ThemePickerDialog.updateMetadata(themeName); the status text it writes
\* into #rise-theme-status and the re-render are presentation only
UpdateMetadata(themeName) ==
  LET current == currentWidget IN
  IF current # NoWidget /\ hasModel[current]
       THEN LET newMetadata ==
                  Obj(SpreadTheme(OrEmpty(riseMeta[current]), themeName)) IN
            /\ PendingSaves < MaxPendingSaves
            /\ riseMeta' = [riseMeta EXCEPT ![current] = newMetadata]
            /\ saveQueue' = ContextSave(saveQueue, current, newMetadata)
            /\ iframes' = RefreshRisePreview(iframes, current, themeName)
            /\ UNCHANGED <<currentWidget, hasModel, disk, bodyRiseEnabled>>
       ELSE UNCHANGED themeVars

\* riseSetTheme without the test of themeName
RiseSetThemeAnyArg(themeName) ==
  LET current == currentWidget IN
  /\ IF current # NoWidget /\ hasModel[current]
       THEN riseMeta' = [riseMeta EXCEPT ![current] =
                           Obj(AssignTheme(OrEmpty(riseMeta[current]), themeName))]
       ELSE UNCHANGED riseMeta
  /\ bodyRiseEnabled' = TRUE
  /\ UNCHANGED <<currentWidget, hasModel, saveQueue, disk, iframes>>

\* CommandIDs.riseSetTheme execute; the 'Theme Updated' dialog it shows
\* asks the user to save and refresh
RiseSetTheme(themeName) ==
  LET current == currentWidget IN
  /\ IF current # NoWidget /\ themeName # "" /\ hasModel[current]
       THEN riseMeta' = [riseMeta EXCEPT ![current] =
                           Obj(AssignTheme(OrEmpty(riseMeta[current]), themeName))]
       ELSE UNCHANGED riseMeta
  /\ bodyRiseEnabled' = TRUE
  /\ UNCHANGED <<currentWidget, hasModel, saveQueue, disk, iframes>>

\* the host completes a context.save(): the snapshot reaches the file
SaveComplete(n) ==
  /\ saveQueue[n] # <<>>
  /\ disk' = [disk EXCEPT ![n] = Head(saveQueue[n])]
  /\ saveQueue' = [saveQueue EXCEPT ![n] = Tail(saveQueue[n])]
  /\ UNCHANGED <<currentWidget, hasModel, riseMeta, iframes,
                 bodyRiseEnabled>>

\* a reloading Reveal iframe fetches the notebook file and renders it
IframeLoad(i) ==
  /\ iframes[i].pending
  /\ iframes' = [iframes EXCEPT ![i] =
                   [pending |-> FALSE, selected |-> "",
                    shown |-> ThemeOf(disk[IframeNotebook(i)])]]
  /\ UNCHANGED <<currentWidget, hasModel, riseMeta, saveQueue, disk,
                 bodyRiseEnabled>>

\* the user activates another notebook panel (or none is left)
ChangeCurrent(n) ==
  /\ n # currentWidget
  /\ currentWidget' = n
  /\ UNCHANGED <<hasModel, riseMeta, saveQueue, disk, iframes,
                 bodyRiseEnabled>>

Next ==
  \/ \E t \in Themes : UpdateMetadata(t) /\ UNCHANGED <<slideVars, fsVars, autoVars>>
  \/ \E t \in ThemeArgs : RiseSetTheme(t) /\ UNCHANGED <<slideVars, fsVars, autoVars>>
  \/ \E n \in Notebooks : SaveComplete(n) /\ UNCHANGED <<slideVars, fsVars, autoVars>>
  \/ \E i \in Iframes : IframeLoad(i) /\ UNCHANGED <<slideVars, fsVars, autoVars>>
  \/ \E n \in Notebooks \cup {NoWidget} : ChangeCurrent(n) /\ UNCHANGED <<slideVars, fsVars, autoVars>>

Spec == Init /\ [][Next]_vars

\* the operation finds a current notebook that has a model
HasCurrentModel == currentWidget # NoWidget /\ hasModel[currentWidget]

\* the operation requests one save of the current notebook, of the metadata
\* it has just written
SaveRequested ==
  /\ Len(saveQueue'[currentWidget]) = Len(saveQueue[currentWidget]) + 1
  /\ saveQueue'[currentWidget][Len(saveQueue'[currentWidget])]
       = riseMeta'[currentWidget]

\* C1: after updateMetadata(t) on a current notebook with a model, the
\* 'rise' metadata is an object whose theme is t and which keeps every
\* other key of the prior value with its value; an absent prior value gives
\* {theme: t}.
C1_PickerMerge ==
  [][\A t \in Themes :
       (UpdateMetadata(t) /\ HasCurrentModel) =>
         LET m == riseMeta[currentWidget]
             new == riseMeta'[currentWidget] IN
         /\ new.present
         /\ "theme" \in DOMAIN new.obj
         /\ new.obj["theme"] = t
         /\ \A k \in DOMAIN m.obj \ {"theme"} :
              k \in DOMAIN new.obj /\ new.obj[k] = m.obj[k]
         /\ DOMAIN new.obj \subseteq DOMAIN m.obj \cup {"theme"}
         /\ ~m.present => new.obj = [k \in {"theme"} |-> t]]_vars

\* a notebook whose 'rise' metadata had autolaunch got a theme from the
\* picker and still has autolaunch
C1_Witness ==
  \E n \in Notebooks :
    /\ saveQueue[n] # <<>>
    /\ riseMeta[n].present
    /\ DOMAIN riseMeta[n].obj = {"autolaunch", "scroll", "theme"}
    /\ riseMeta[n].obj["autolaunch"] = "true"
    /\ riseMeta[n].obj["theme"] \in Themes

\* C2 as stated: every write of the 'rise' metadata, by RISE:set-theme or by
\* updateMetadata, requests a save of that notebook in the same operation.
C2_EveryWriteSaved ==
  [][\A t \in ThemeArgs :
       /\ (UpdateMetadata(t) /\ HasCurrentModel) => SaveRequested
       /\ (RiseSetTheme(t) /\ HasCurrentModel /\ t # "") => SaveRequested]_vars

\* C2 amended: every write by updateMetadata requests a save of that
\* notebook in the same operation; a write by RISE:set-theme requests none.
C2_PickerWriteSaved ==
  [][\A t \in ThemeArgs :
       /\ (UpdateMetadata(t) /\ HasCurrentModel) => SaveRequested
       /\ RiseSetTheme(t) => saveQueue' = saveQueue]_vars

\* the picker wrote a theme and the save of it is in flight
C2_Witness ==
  \E n \in Notebooks :
    /\ saveQueue[n] # <<>>
    /\ saveQueue[n][Len(saveQueue[n])] = riseMeta[n]
    /\ ThemeOf(riseMeta[n]) \in Themes

\* C3: the reload of a Reveal preview started by a theme selection happens
\* after the save has completed: the reloaded preview reads a file that
\* holds the selected theme.
C3_ReloadReadsSelectedTheme ==
  [][\A i \in Iframes :
       (iframes[i].pending /\ ~iframes'[i].pending /\ iframes[i].selected # "")
         => iframes'[i].shown = iframes[i].selected]_vars

\* C4: the picker and RISE:set-theme leave the 'rise' metadata of every
\* notebook but the current one unchanged, and change no metadata and
\* request no save when there is no current notebook, it has no model, or
\* (RISE:set-theme) the theme argument is empty.
C4_OnlyCurrentNotebook ==
  [][\A t \in ThemeArgs :
       /\ (UpdateMetadata(t) \/ RiseSetTheme(t)) =>
            /\ \A n \in Notebooks \ {currentWidget} :
                 riseMeta'[n] = riseMeta[n] /\ saveQueue'[n] = saveQueue[n]
            /\ ~HasCurrentModel => (riseMeta' = riseMeta /\ saveQueue' = saveQueue)
       /\ (RiseSetTheme(t) /\ t = "") =>
            (riseMeta' = riseMeta /\ saveQueue' = saveQueue)]_vars

\* RISE:set-theme has run, one notebook has a theme of its own and another
\* open notebook with a model still has the metadata of its file
C4_Witness ==
  /\ bodyRiseEnabled
  /\ \E n, m \in Notebooks :
       /\ n # m
       /\ hasModel[n] /\ hasModel[m]
       /\ ThemeOf(riseMeta[n]) \in Themes
       /\ riseMeta[m] \in InitRise
       /\ riseMeta[m] = disk[m]
       /\ saveQueue[m] = <<>>

\* ------------------------------------------------- RISE:set-slide-type
\* the slide types the command is enabled for
SlideTypes == {"slide", "subslide", "fragment", "skip", "notes"}
\* args['type']: one of the slide types, or missing
SlideTypeArgs == SlideTypes \cup {"undefined"}

\* values the 'slideshow' metadata of a cell of an opened notebook may have
InitSlideshow ==
  { Absent,
    Obj([k \in {"slide_type"} |-> "slide"]),
    Obj([k \in {"slide_type", "transition"} |->
           IF k = "slide_type" THEN "notes" ELSE "zoom"]) }

\* currentValue['slide_type']
SlideTypeOf(o) == IF "slide_type" \in DOMAIN o THEN o["slide_type"] ELSE "undefined"

\* newValue['slide_type'] = value
AssignSlideType(o, value) ==
  [k \in DOMAIN o \cup {"slide_type"} |-> IF k = "slide_type" THEN value ELSE o[k]]

\* delete newValue['slide_type']
DeleteSlideType(o) == [k \in DOMAIN o \ {"slide_type"} |-> o[k]]

InitSlide ==
  /\ shellCurrent \in Notebooks \cup {NoWidget, OtherWidget}
  /\ activeCell \in [Notebooks -> Cells \cup {NoCell}]
  /\ slideshow \in [Notebooks -> [Cells -> InitSlideshow]]
  /\ ranSlide = [type |-> "undefined", nb |-> NoWidget, cell |-> NoCell,
                 before |-> "undefined"]

\* the theme state when only slide types are edited
IdleTheme ==
  /\ currentWidget = NoWidget
  /\ hasModel = [n \in Notebooks |-> TRUE]
  /\ riseMeta = [n \in Notebooks |-> Absent]
  /\ saveQueue = [n \in Notebooks |-> <<>>]
  /\ disk = riseMeta
  /\ iframes = [i \in Iframes |->
                  [pending |-> FALSE, selected |-> "", shown |-> "none"]]
  /\ bodyRiseEnabled = FALSE

\* CommandIDs.riseSetSlideType execute
RiseSetSlideType(value) ==
  LET current == shellCurrent IN
  IF current \in Notebooks /\ activeCell[current] # NoCell
    THEN LET cell == activeCell[current]
             currentValue == OrEmpty(slideshow[current][cell])
             newValue == IF value # "undefined"
                           THEN AssignSlideType(currentValue, value)
                           ELSE DeleteSlideType(currentValue) IN
         /\ ranSlide' = [type |-> value, nb |-> current, cell |-> cell,
                         before |-> SlideTypeOf(currentValue)]
         /\ IF value # SlideTypeOf(currentValue)
              THEN slideshow' = [slideshow EXCEPT ![current][cell] =
                                   IF DOMAIN newValue # {} THEN Obj(newValue)
                                                           ELSE Absent]
              ELSE UNCHANGED slideshow
         /\ UNCHANGED <<shellCurrent, activeCell>>
    ELSE /\ ranSlide' = [type |-> value, nb |-> NoWidget, cell |-> NoCell,
                         before |-> "undefined"]
         /\ UNCHANGED <<shellCurrent, activeCell, slideshow>>

\* the user selects another cell of a notebook (or none is active)
ActiveCellChanged(n, c) ==
  /\ c # activeCell[n]
  /\ activeCell' = [activeCell EXCEPT ![n] = c]
  /\ UNCHANGED <<shellCurrent, slideshow, ranSlide>>

\* the user activates another main area widget
ShellActivate(w) ==
  /\ w # shellCurrent
  /\ shellCurrent' = w
  /\ UNCHANGED <<activeCell, slideshow, ranSlide>>

NextSlide ==
  \/ \E t \in SlideTypeArgs : RiseSetSlideType(t) /\ UNCHANGED <<themeVars, fsVars, autoVars>>
  \/ \E n \in Notebooks, c \in Cells \cup {NoCell} :
        ActiveCellChanged(n, c) /\ UNCHANGED <<themeVars, fsVars, autoVars>>
  \/ \E w \in Notebooks \cup {NoWidget, OtherWidget} :
        ShellActivate(w) /\ UNCHANGED <<themeVars, fsVars, autoVars>>

InitSpecSlide == InitSlide /\ IdleTheme /\ IdleFullScreen /\ IdleAuto

SpecSlide == InitSpecSlide /\ [][NextSlide]_vars

\* C5: RISE:set-slide-type toggles the slide type of the active cell: run
\* with type T on a cell whose slide_type is not T it sets T, and run on a
\* cell whose slide_type already is T it unsets it.
C5_Toggles ==
  (ranSlide.nb # NoWidget /\ ranSlide.type \in SlideTypes) =>
    LET now == SlideTypeOf(OrEmpty(slideshow[ranSlide.nb][ranSlide.cell])) IN
    IF ranSlide.before = ranSlide.type THEN now = "undefined"
                                       ELSE now = ranSlide.type

\* ------------------------------------------------ RISE:fullscreen-plugin
\* args['id'] names no main area widget
UnknownId == NumPreviews + 1

InitFullScreen ==
  /\ tracked \in [Previews -> BOOLEAN]
  /\ hasIframe \in [Previews -> BOOLEAN]
  /\ ready \in [Previews -> BOOLEAN]
  /\ shellWidget \in Previews \cup {NoWidget}
  /\ fullscreen = NoWidget
  /\ thenQueue = [w \in Previews |-> 0]
  /\ requests = [w \in Previews |-> 0]
  /\ exiting = FALSE
  /\ focused = NoWidget
  /\ executions = [w \in Previews |-> 0]

\* CommandIDs.riseFullScreen execute; id = NoWidget when args['id'] is not
\* given
RiseFullScreen(id) ==
  LET current == IF id # NoWidget
                   THEN (IF id \in Previews THEN id ELSE NoWidget)
                   ELSE shellWidget IN
  /\ shellWidget' = IF id \in Previews THEN id ELSE shellWidget
  /\ IF current # NoWidget /\ tracked[current] /\ hasIframe[current]
       THEN /\ executions[current] < MaxExecutions
            /\ executions' = [executions EXCEPT ![current] = @ + 1]
            /\ IF fullscreen = NoWidget
                 THEN /\ thenQueue' = [thenQueue EXCEPT ![current] = @ + 1]
                      /\ UNCHANGED exiting
                 ELSE /\ exiting' = TRUE
                      /\ UNCHANGED thenQueue
            /\ focused' = current
       ELSE UNCHANGED <<executions, thenQueue, exiting, focused>>
  /\ UNCHANGED <<tracked, hasIframe, ready, fullscreen, requests>>

\* widget.ready resolves
PreviewReady(w) ==
  /\ ~ready[w]
  /\ ready' = [ready EXCEPT ![w] = TRUE]
  /\ UNCHANGED <<tracked, hasIframe, shellWidget, fullscreen, thenQueue,
                 requests, exiting, focused, executions>>

\* a ready.then callback runs: div.reveal of the iframe requestFullscreen()
ReadyThen(w) ==
  /\ ready[w]
  /\ thenQueue[w] > 0
  /\ thenQueue' = [thenQueue EXCEPT ![w] = @ - 1]
  /\ requests' = [requests EXCEPT ![w] = @ + 1]
  /\ UNCHANGED <<tracked, hasIframe, ready, shellWidget, fullscreen, exiting,
                 focused, executions>>

\* the browser grants a requestFullscreen()
FullscreenGranted(w) ==
  /\ requests[w] > 0
  /\ requests' = [requests EXCEPT ![w] = @ - 1]
  /\ fullscreen' = w
  /\ UNCHANGED <<tracked, hasIframe, ready, shellWidget, thenQueue, exiting,
                 focused, executions>>

\* the browser completes a document.exitFullscreen()
FullscreenExited ==
  /\ exiting
  /\ exiting' = FALSE
  /\ fullscreen' = NoWidget
  /\ UNCHANGED <<tracked, hasIframe, ready, shellWidget, thenQueue, requests,
                 focused, executions>>

NextFullScreen ==
  \/ \E id \in Previews \cup {NoWidget, UnknownId} :
        RiseFullScreen(id) /\ UNCHANGED <<themeVars, slideVars, autoVars>>
  \/ \E w \in Previews : PreviewReady(w) /\ UNCHANGED <<themeVars, slideVars, autoVars>>
  \/ \E w \in Previews : ReadyThen(w) /\ UNCHANGED <<themeVars, slideVars, autoVars>>
  \/ \E w \in Previews : FullscreenGranted(w) /\ UNCHANGED <<themeVars, slideVars, autoVars>>
  \/ FullscreenExited /\ UNCHANGED <<themeVars, slideVars, autoVars>>

InitSpecFullScreen == InitFullScreen /\ IdleTheme /\ IdleSlide /\ IdleAuto

SpecFullScreen == InitSpecFullScreen /\ [][NextFullScreen]_vars

\* nothing of the full screen handling is in flight
Settled ==
  /\ ~exiting
  /\ \A w \in Previews : thenQueue[w] = 0 /\ requests[w] = 0

\* C6: RISE:fullscreen-plugin toggles full screen: two executions issued one
\* after the other on a slideshow that is not full screen leave it not full
\* screen, also when the second arrives before the ready promise resolved.
C6_TwoExecutionsToggleBack ==
  \A w \in Previews :
    ( /\ executions[w] = 2
      /\ \A v \in Previews \ {w} : executions[v] = 0
      /\ Settled ) => fullscreen # w

\* ------------------------------------------------------------ auto launch
\* values the 'rise' metadata of a notebook being opened may have
InitAutoRise ==
  { Absent,
    Obj([k \in {"autolaunch"} |-> "true"]),
    Obj([k \in {"autolaunch", "theme"} |->
           IF k = "autolaunch" THEN "false" ELSE "sky"]) }

InitAuto ==
  /\ appName \in {"JupyterLab", "Rise"}
  /\ hasRegistry \in BOOLEAN
  /\ settingAuto \in BOOLEAN
  /\ hasRegistry = FALSE => settingAuto = FALSE
  /\ settings = FALSE
  /\ contextReady = [n \in Notebooks |-> FALSE]
  /\ pc = [n \in Notebooks |-> "closed"]
  /\ toolbar = [n \in Notebooks |-> {}]
  /\ launched = [n \in Notebooks |-> FALSE]

\* the theme state of the notebooks being opened
InitAutoTheme ==
  /\ currentWidget = NoWidget
  /\ hasModel \in [Notebooks -> BOOLEAN]
  /\ riseMeta \in [Notebooks -> InitAutoRise]
  /\ saveQueue = [n \in Notebooks |-> <<>>]
  /\ disk = riseMeta
  /\ iframes = [i \in Iframes |->
                  [pending |-> FALSE, selected |-> "", shown |-> "none"]]
  /\ bodyRiseEnabled = FALSE

\* (panel.content.model?.getMetadata('rise') ?? {})['autolaunch'] ?? false
MetaAutolaunch(n) ==
  IF hasModel[n] /\ riseMeta[n].present /\ "autolaunch" \in DOMAIN riseMeta[n].obj
    THEN riseMeta[n].obj["autolaunch"] = "true"
    ELSE FALSE

\* settingRegistry.load(plugin.id).then(config => { settings = config })
SettingsLoaded ==
  /\ hasRegistry
  /\ ~settings
  /\ settings' = TRUE
  /\ UNCHANGED <<appName, hasRegistry, settingAuto, contextReady, pc, toolbar,
                 launched>>

\* notebookTracker.widgetAdded handler, up to await panel.context.ready
WidgetAdded(n) ==
  /\ pc[n] = "closed"
  /\ IF appName # "Rise"
       THEN /\ pc' = [pc EXCEPT ![n] = "awaitReady"]
            /\ toolbar' = [toolbar EXCEPT ![n] = @ \cup {"RISE-button"}]
       ELSE /\ pc' = [pc EXCEPT ![n] = "done"]
            /\ toolbar' = [toolbar EXCEPT ![n] =
                             @ \cup {"RISE-button", "RISE-theme-button"}]
  /\ UNCHANGED <<appName, hasRegistry, settingAuto, settings, contextReady,
                 launched>>

\* panel.context.ready resolves
ContextReady(n) ==
  /\ ~contextReady[n]
  /\ contextReady' = [contextReady EXCEPT ![n] = TRUE]
  /\ UNCHANGED <<appName, hasRegistry, settingAuto, settings, pc, toolbar,
                 launched>>

\* the widgetAdded handler resumes after await panel.context.ready
AutoLaunch(n) ==
  /\ pc[n] = "awaitReady"
  /\ contextReady[n]
  /\ LET autolaunch == MetaAutolaunch(n) \/ (settings /\ settingAuto) IN
     IF autolaunch
       THEN /\ launched' = [launched EXCEPT ![n] = TRUE]
            /\ pc' = [pc EXCEPT ![n] = "awaitPreview"]
            /\ UNCHANGED toolbar
       ELSE /\ pc' = [pc EXCEPT ![n] = "done"]
            /\ toolbar' = [toolbar EXCEPT ![n] = @ \cup {"RISE-theme-button"}]
            /\ UNCHANGED launched
  /\ UNCHANGED <<appName, hasRegistry, settingAuto, settings, contextReady>>

\* await commands.execute(RISE:preview) returns; the theme button is added
PreviewExecuted(n) ==
  /\ pc[n] = "awaitPreview"
  /\ pc' = [pc EXCEPT ![n] = "done"]
  /\ toolbar' = [toolbar EXCEPT ![n] = @ \cup {"RISE-theme-button"}]
  /\ UNCHANGED <<appName, hasRegistry, settingAuto, settings, contextReady,
                 launched>>

NextAuto ==
  \/ SettingsLoaded /\ UNCHANGED <<themeVars, slideVars, fsVars>>
  \/ \E n \in Notebooks : WidgetAdded(n) /\ UNCHANGED <<themeVars, slideVars, fsVars>>
  \/ \E n \in Notebooks : ContextReady(n) /\ UNCHANGED <<themeVars, slideVars, fsVars>>
  \/ \E n \in Notebooks : AutoLaunch(n) /\ UNCHANGED <<themeVars, slideVars, fsVars>>
  \/ \E n \in Notebooks : PreviewExecuted(n) /\ UNCHANGED <<themeVars, slideVars, fsVars>>

InitSpecAuto == InitAuto /\ InitAutoTheme /\ IdleSlide /\ IdleFullScreen

SpecAuto == InitSpecAuto /\ [][NextAuto]_vars

\* C7: for every notebook panel added to the tracker, RISE:preview is run
\* with fullscreen: true once its context is ready if and only if the
\* application is not 'Rise' and (rise.autolaunch is true or the plugin
\* setting 'autolaunch' is true), whatever the order of the settings load
\* and the panel being added.
C7_AutoLaunchIff ==
  \A n \in Notebooks :
    pc[n] \in {"awaitPreview", "done"} =>
      (launched[n] <=>
         (appName # "Rise" /\ (MetaAutolaunch(n) \/ settingAuto)))

====
